---- MODULE Spec2Model ----
(***************************************************************************)
(* A model of the phosphor-ui widget toolkit: the PanelLayout child        *)
(* lifecycle (attach / move / detach against the parent's DOM node), the   *)
(* Menu open/close state machine with its timers, the MenuBar and the      *)
(* TabBar.  DOM nodes are identified with the widget / menu / title that   *)
(* owns them; an index argument v is represented by the integer 2*v, so    *)
(* that Math.floor is exercised on non-integral values too.                *)
(***************************************************************************)
EXTENDS Integers, Sequences, FiniteSets, TLC

VARIABLES
  \* ---- PanelLayout -----------------------------------------------------
  children,        \* PanelLayout._children
  layoutParent,    \* Layout._parent is set (the layout is installed)
  parentAttached,  \* parent.isAttached
  dom,             \* parent.node.children, each node named by its widget
  wparent,         \* child.parent per widget: "null" or "host"
  wattached,       \* child.isAttached per widget
  trace,           \* messages and DOM mutations of the last operation
  lastOp,          \* the last PanelLayout operation and its pre-state
  threw,           \* the last operation ended with an exception
  \* ---- Menu ------------------------------------------------------------
  items,           \* Menu._items per menu: a sequence of menu item ids
  itemNodes,       \* Menu._nodes per menu: a sequence of node ids
  contentDom,      \* the children of Menu.contentNode per menu
  parentMenu,      \* Menu._parentMenu per menu
  childMenu,       \* Menu._childMenu per menu
  childItem,       \* Menu._childItem per menu
  openTimer,       \* Menu._openTimerId per menu: the item to open, or Null
  closeTimer,      \* Menu._closeTimerId per menu is set
  activeIndex,     \* Menu._activeIndex per menu
  attached,        \* Widget.isAttached per menu
  menuOp,          \* the last Menu operation and the pre-state it needs
  menuThrew,       \* the last Menu operation ended with an exception
  \* ---- MenuBar ---------------------------------------------------------
  barMenus,        \* MenuBar._menus
  barNodes,        \* MenuBar._nodes, each node named by the menu it was made for
  barDom,          \* the children of MenuBar.contentNode
  barActiveIndex,  \* MenuBar._activeIndex
  barChildMenu,    \* MenuBar._childMenu
  barListening,    \* the bar's document 'mousedown' listener is installed
  barAttached,     \* MenuBar.isAttached
  barOp,           \* the last MenuBar operation and the pre-state it needs
  barThrew,        \* the last MenuBar operation ended with an exception
  \* ---- TabBar ----------------------------------------------------------
  titles,          \* TabBar._titles
  tabs,            \* TabBar._tabs, each tab node named by the title it was made for
  tabDom,          \* the children of TabBar.contentNode
  currentIndex,    \* TabBar._currentIndex
  tabsMovable,     \* TabBar._tabsMovable
  dragData,        \* TabBar._dragData is set
  docListeners,    \* the document-level listeners of the tab bar
  tabAttached,     \* TabBar.isAttached
  tabOp,           \* the last TabBar operation and the pre-state it needs
  tabThrew,        \* the last TabBar operation ended with an exception
  \* ---- overrideCursor --------------------------------------------------
  overrideID,      \* the id of the active cursor override
  bodyCursor,      \* document.body.style.cursor
  bodyClass,       \* document.body has the override cursor class
  disposed,        \* the ids of the overrides whose disposable was disposed
  cursorOp,        \* the last cursor operation
  \* ---- setGeometry / resetGeometry -------------------------------------
  rect,            \* Private.rectProperty of the widget
  geomSet,         \* setGeometry was called since construction or the last reset
  geomOp,          \* the last geometry operation, its pre-state and its message
  \* ---- Layout.parent ---------------------------------------------------
  layParent,       \* Layout._parent: a host widget or Null
  layDisposed,     \* Layout._disposed
  hostLayout,      \* widget.layout per host widget: "this", "other" or "null"
  layOp,           \* the last Layout operation and the parent before it
  layThrew,        \* the last Layout operation threw
  \* ---- history ---------------------------------------------------------
  closeTarget      \* per menu with a pending close: the child menu that was
                   \* open when the close was scheduled

panelVars == <<children, layoutParent, parentAttached, dom, wparent,
               wattached, trace, lastOp, threw>>

menuVars == <<items, itemNodes, contentDom, parentMenu, childMenu, childItem,
              openTimer, closeTimer, activeIndex, attached, menuOp, menuThrew>>

barVars == <<barMenus, barNodes, barDom, barActiveIndex, barChildMenu,
             barListening, barAttached, barOp, barThrew>>

tabVars == <<titles, tabs, tabDom, currentIndex, tabsMovable, dragData,
             docListeners, tabAttached, tabOp, tabThrew>>

cursorVars == <<overrideID, bodyCursor, bodyClass, disposed, cursorOp>>

\* The state of the utilities outside the widgets
geomVars == <<rect, geomSet, geomOp>>

layVars == <<layParent, layDisposed, hostLayout, layOp, layThrew>>

utilVars == <<cursorVars, geomVars, layVars>>

widgetVars == <<panelVars, menuVars, barVars, tabVars>>

\* What the program does not hold itself
historyVars == <<closeTarget>>

vars == <<widgetVars, utilVars, historyVars>>

\* What the operations of one widget leave alone
otherThanPanel == <<menuVars, barVars, tabVars, utilVars, historyVars>>
otherThanMenu == <<panelVars, barVars, tabVars, utilVars>>
otherThanBar == <<panelVars, items, itemNodes, contentDom, menuOp, menuThrew, tabVars,
                  utilVars, historyVars>>
otherThanTab == <<panelVars, menuVars, barVars, utilVars, historyVars>>
otherThanCursor == <<widgetVars, geomVars, layVars, historyVars>>
otherThanGeom == <<widgetVars, cursorVars, layVars, historyVars>>
otherThanLayout == <<widgetVars, cursorVars, geomVars, historyVars>>

-----------------------------------------------------------------------------
(* Bounds *)

NumWidgets == 3
MaxIndex == 4

Widgets == 1..NumWidgets

NumMenus == 4
NumBarMenus == 3
NumTitles == 3

Titles == 1..NumTitles
MaxItems == 2

\* The number of overrideCursor calls made
MaxOverrides == 4

\* The largest pixel value given to setGeometry
MaxPixels == 1

\* The number of widgets a layout can be installed on
NumHosts == 2

Menus == 1..NumMenus

\* An index argument v is carried as 2*v: -2..2*MaxIndex+1 is -1, -0.5, .. MaxIndex+0.5
IndexArgs == (-2)..(2 * MaxIndex + 1)

Null == 0

-----------------------------------------------------------------------------
(* Library helpers: Math.floor, Vector.insert / remove, move, indexOf *)

\* Math.floor(v) on the doubled representation of v
Floor(k) == k \div 2

Max(a, b) == IF a >= b THEN a ELSE b
Min(a, b) == IF a <= b THEN a ELSE b

\* Math.max(0, Math.min(Math.floor(index), n))
ClampIndex(k, n) == Max(0, Min(Floor(k), n))

\* Vector.insert(j, x), 0-based
InsertAt(s, j, x) == SubSeq(s, 1, j) \o <<x>> \o SubSeq(s, j + 1, Len(s))

\* Vector.remove(i), 0-based
RemoveAt(s, i) == SubSeq(s, 1, i) \o SubSeq(s, i + 2, Len(s))

\* move(vector, i, j), 0-based
Move(s, i, j) == InsertAt(RemoveAt(s, i), j, s[i + 1])

\* indexOf(sequence, x): the first 0-based index of x, or -1
IndexOf(s, x) ==
  IF \E p \in 1..Len(s) : s[p] = x
  THEN (CHOOSE p \in 1..Len(s) : s[p] = x /\ \A q \in 1..(p - 1) : s[q] # x) - 1
  ELSE -1

\* sequence.at(i): undefined (Null) when i is out of range
At(s, i) == IF i >= 0 /\ i < Len(s) THEN s[i + 1] ELSE Null

NoDup(s) == \A p, q \in 1..Len(s) : p # q => s[p] # s[q]

-----------------------------------------------------------------------------
(* DOM helpers *)

\* node.insertBefore(x, ref): x is first removed from the node if it is a
\* child already; a null / undefined ref appends.
DomInsertBefore(d, x, ref) ==
  LET r  == IF ref = x THEN At(d, IndexOf(d, x) + 1) ELSE ref
      d1 == IF IndexOf(d, x) = -1 THEN d ELSE RemoveAt(d, IndexOf(d, x))
  IN IF r = Null \/ IndexOf(d1, r) = -1
     THEN Append(d1, x)
     ELSE InsertAt(d1, IndexOf(d1, r), x)

\* node.removeChild(x) when x is a child of node
DomRemoveChild(d, x) == RemoveAt(d, IndexOf(d, x))

-----------------------------------------------------------------------------
(* PanelLayout: the operations work on a record of the mutable state *)

PanelState == [children |-> children, dom |-> dom, wparent |-> wparent,
               wattached |-> wattached, trace |-> <<>>, threw |-> FALSE]

Ev(kind, w) == [kind |-> kind, w |-> w]

\* sendMessage(child, AfterAttach / BeforeDetach): the widget records the
\* message in its IsAttached flag
SendMessage(st, child, type) ==
  [st EXCEPT !.trace = Append(@, Ev(type, child)),
             !.wattached[child] = (type = "after-attach")]

\* attachChild sending 'after-attach' before the node is in the parent's node
AttachChild_msgFirst(st, index, child) ==
  LET ref == At(st.dom, index)
      st1 == IF parentAttached THEN SendMessage(st, child, "after-attach") ELSE st
  IN [st1 EXCEPT !.dom = DomInsertBefore(st.dom, child, ref),
                 !.trace = Append(@, Ev("dom-insert", child))]

\* PanelLayout.attachChild(index, child)
AttachChild(st, index, child) ==
  LET ref == At(st.dom, index)
      st1 == [st EXCEPT !.dom = DomInsertBefore(st.dom, child, ref),
                        !.trace = Append(@, Ev("dom-insert", child))]
  IN IF parentAttached THEN SendMessage(st1, child, "after-attach") ELSE st1

\* moveChild looking up the reference node before removing the child's node
MoveChild_staleRef(st, fromIndex, toIndex, child) ==
  LET st1 == IF parentAttached THEN SendMessage(st, child, "before-detach") ELSE st
  IN IF IndexOf(st1.dom, child) = -1
     THEN [st1 EXCEPT !.threw = TRUE]
     ELSE LET ref == At(st1.dom, toIndex)
              d2  == DomRemoveChild(st1.dom, child)
              st2 == [st1 EXCEPT !.dom = DomInsertBefore(d2, child, ref),
                                 !.trace = @ \o <<Ev("dom-remove", child),
                                                  Ev("dom-insert", child)>>]
          IN IF parentAttached THEN SendMessage(st2, child, "after-attach") ELSE st2

\* moveChild that does not send 'before-detach'
MoveChild_noDetach(st, fromIndex, toIndex, child) ==
  IF IndexOf(st.dom, child) = -1
  THEN [st EXCEPT !.threw = TRUE]
  ELSE LET d2  == DomRemoveChild(st.dom, child)
           ref == At(d2, toIndex)
           st2 == [st EXCEPT !.dom = DomInsertBefore(d2, child, ref),
                             !.trace = @ \o <<Ev("dom-remove", child),
                                              Ev("dom-insert", child)>>]
       IN IF parentAttached THEN SendMessage(st2, child, "after-attach") ELSE st2

\* PanelLayout.moveChild(fromIndex, toIndex, child)
MoveChild(st, fromIndex, toIndex, child) ==
  LET st1 == IF parentAttached THEN SendMessage(st, child, "before-detach") ELSE st
  IN IF IndexOf(st1.dom, child) = -1
     THEN [st1 EXCEPT !.threw = TRUE]
     ELSE LET d2  == DomRemoveChild(st1.dom, child)
              ref == At(d2, toIndex)
              st2 == [st1 EXCEPT !.dom = DomInsertBefore(d2, child, ref),
                                 !.trace = @ \o <<Ev("dom-remove", child),
                                                  Ev("dom-insert", child)>>]
          IN IF parentAttached THEN SendMessage(st2, child, "after-attach") ELSE st2

\* PanelLayout.detachChild(index, child)
DetachChild(st, index, child) ==
  LET st1 == IF parentAttached THEN SendMessage(st, child, "before-detach") ELSE st
  IN IF IndexOf(st1.dom, child) = -1
     THEN [st1 EXCEPT !.threw = TRUE]
     ELSE [st1 EXCEPT !.dom = DomRemoveChild(st1.dom, child),
                      !.trace = Append(@, Ev("dom-remove", child))]

\* PanelLayout.removeChild(child)
RemoveChild(st, child) ==
  LET i == IndexOf(st.children, child)
  IN IF i = -1 THEN st
     ELSE LET st1 == [st EXCEPT !.children = RemoveAt(st.children, i)]
          IN IF layoutParent THEN DetachChild(st1, i, child) ELSE st1

\* PanelLayout.onChildRemoved(msg)
OnChildRemoved(st, child) == RemoveChild(st, child)

\* Widget.parent setter: the old parent is sent 'child-removed', which its
\* layout handles, then the new parent is stored
WidgetSetParent(st, child, value) ==
  IF st.wparent[child] = value THEN st
  ELSE LET st1 == IF st.wparent[child] = "host" THEN OnChildRemoved(st, child) ELSE st
       IN [st1 EXCEPT !.wparent[child] = value]

\* this.parent as seen by the layout
ThisParent == IF layoutParent THEN "host" ELSE "null"

\* insertChild without the lookup of the child's current index
InsertChild_noLookup(st0, k, child) ==
  LET st == WidgetSetParent(st0, child, ThisParent)
      j  == ClampIndex(k, Len(st.children))
      st1 == [st EXCEPT !.children = InsertAt(st.children, j, child)]
  IN IF layoutParent THEN AttachChild(st1, j, child) ELSE st1

\* insertChild without the bail on "no effective move"
InsertChild_noBail(st0, k, child) ==
  LET st == WidgetSetParent(st0, child, ThisParent)
      n  == Len(st.children)
      j  == ClampIndex(k, n)
      i  == IndexOf(st.children, child)
  IN IF i = -1
     THEN LET st1 == [st EXCEPT !.children = InsertAt(st.children, j, child)]
          IN IF layoutParent THEN AttachChild(st1, j, child) ELSE st1
     ELSE LET j2 == IF j = n THEN j - 1 ELSE j
              st1 == [st EXCEPT !.children = Move(st.children, i, j2)]
          IN IF layoutParent THEN MoveChild(st1, i, j2, child) ELSE st1

\* PanelLayout.insertChild(index, child), index given doubled
InsertChild(st0, k, child) ==
  LET st == WidgetSetParent(st0, child, ThisParent)
      n  == Len(st.children)
      j  == ClampIndex(k, n)
      i  == IndexOf(st.children, child)
  IN IF i = -1
     THEN LET st1 == [st EXCEPT !.children = InsertAt(st.children, j, child)]
          IN IF layoutParent THEN AttachChild(st1, j, child) ELSE st1
     ELSE LET j2 == IF j = n THEN j - 1 ELSE j
          IN IF i = j2 THEN st
             ELSE LET st1 == [st EXCEPT !.children = Move(st.children, i, j2)]
                  IN IF layoutParent THEN MoveChild(st1, i, j2, child) ELSE st1

\* PanelLayout.addChild(child)
AddChild(st, child) == InsertChild(st, 2 * Len(st.children), child)

\* PanelLayout.onLayoutChanged(msg): the loop over this._children
RECURSIVE LayoutChangedLoop(_, _)
LayoutChangedLoop(st, i) ==
  IF i >= Len(st.children) THEN st
  ELSE LET child == st.children[i + 1]
           st1   == [st EXCEPT !.wparent[child] = "host"]
           st2   == LET ref == At(st1.dom, i)
                        s   == [st1 EXCEPT !.dom = DomInsertBefore(st1.dom, child, ref),
                                           !.trace = Append(@, Ev("dom-insert", child))]
                    IN IF parentAttached THEN SendMessage(s, child, "after-attach") ELSE s
       IN LayoutChangedLoop(st2, i + 1)

\* Layout.onAfterAttach / onBeforeDetach: forward the message to all widgets
RECURSIVE ForwardLoop(_, _, _)
ForwardLoop(st, i, type) ==
  IF i >= Len(st.children) THEN st
  ELSE ForwardLoop(SendMessage(st, st.children[i + 1], type), i + 1, type)

Commit(st, op) ==
  /\ children' = st.children
  /\ dom' = st.dom
  /\ wparent' = st.wparent
  /\ wattached' = st.wattached
  /\ trace' = st.trace
  /\ threw' = st.threw
  /\ lastOp' = op

Op(name, child, k) ==
  [op |-> name, child |-> child, index |-> k, pre |-> children, predom |-> dom]

-----------------------------------------------------------------------------
(* PanelLayout actions *)

PanelInit ==
  /\ children = <<>>
  /\ layoutParent = FALSE
  /\ parentAttached \in BOOLEAN
  /\ dom = <<>>
  /\ wparent = [w \in Widgets |-> "null"]
  /\ wattached = [w \in Widgets |-> FALSE]
  /\ trace = <<>>
  /\ lastOp = [op |-> "init", child |-> Null, index |-> 0, pre |-> <<>>, predom |-> <<>>]
  /\ threw = FALSE

addChild ==
  \E c \in Widgets :
    /\ Commit(AddChild(PanelState, c), Op("addChild", c, 2 * Len(children)))
    /\ UNCHANGED <<layoutParent, parentAttached, otherThanPanel>>

insertChild ==
  \E c \in Widgets, k \in IndexArgs :
    /\ Commit(InsertChild(PanelState, k, c), Op("insertChild", c, k))
    /\ UNCHANGED <<layoutParent, parentAttached, otherThanPanel>>

removeChild ==
  \E c \in Widgets :
    /\ Commit(RemoveChild(PanelState, c), Op("removeChild", c, 0))
    /\ UNCHANGED <<layoutParent, parentAttached, otherThanPanel>>

\* child.parent = null on a child of the host: 'child-removed' is handled
\* by the layout
unparentChild ==
  \E c \in Widgets :
    /\ wparent[c] = "host"
    /\ Commit(WidgetSetParent(PanelState, c, "null"), Op("unparent", c, 0))
    /\ UNCHANGED <<layoutParent, parentAttached, otherThanPanel>>

\* parent.layout = layout: Layout.parent is set and 'layout-changed' is sent
installLayout ==
  /\ ~layoutParent
  /\ layoutParent' = TRUE
  /\ Commit(LayoutChangedLoop(PanelState, 0), Op("install", Null, 0))
  /\ UNCHANGED <<parentAttached, otherThanPanel>>

\* Widget.attach(parent, host): 'after-attach' reaches Layout.onAfterAttach
attachParent ==
  /\ ~parentAttached
  /\ parentAttached' = TRUE
  /\ Commit(IF layoutParent THEN ForwardLoop(PanelState, 0, "after-attach") ELSE PanelState,
            Op("attachParent", Null, 0))
  /\ UNCHANGED <<layoutParent, otherThanPanel>>

\* Widget.detach(parent): 'before-detach' reaches Layout.onBeforeDetach
detachParent ==
  /\ parentAttached
  /\ parentAttached' = FALSE
  /\ Commit(IF layoutParent THEN ForwardLoop(PanelState, 0, "before-detach") ELSE PanelState,
            Op("detachParent", Null, 0))
  /\ UNCHANGED <<layoutParent, otherThanPanel>>

PanelNext ==
  \/ addChild
  \/ insertChild
  \/ removeChild
  \/ unparentChild
  \/ installLayout
  \/ attachParent
  \/ detachParent

-----------------------------------------------------------------------------
(* Menu items.  An item id stands for one MenuItem object; its fields are   *)
(* fixed.  submenu is a menu id or Null, handler says whether item.handler  *)
(* is set.                                                                  *)

Item(type, disabled, submenu, handler) ==
  [type |-> type, disabled |-> disabled, submenu |-> submenu, handler |-> handler]

ItemIds == 1..10

ItemOf(id) ==
  CASE id = 1  -> Item("submenu", FALSE, 2, FALSE)
    [] id = 2  -> Item("submenu", FALSE, 3, FALSE)
    [] id = 3  -> Item("normal", FALSE, Null, TRUE)
    [] id = 4  -> Item("separator", FALSE, Null, FALSE)
    [] id = 5  -> Item("submenu", FALSE, 4, FALSE)
    [] id = 6  -> Item("normal", TRUE, Null, TRUE)
    [] id = 7  -> Item("submenu", FALSE, Null, FALSE)
    [] id = 8  -> Item("normal", FALSE, Null, FALSE)
    [] id = 9  -> Item("check", FALSE, Null, TRUE)
    [] id = 10 -> Item("submenu", TRUE, 4, FALSE)

\* The items the menus are built with: menu 1 has the submenus 2 and 3,
\* menu 2 has the submenu 4.
BuiltItems(m) ==
  CASE m = 1 -> <<1, 2, 3>>
    [] m = 2 -> <<5>>
    [] m = 3 -> <<4>>
    [] OTHER -> <<>>

\* isSelectable ignoring the disabled flag
IsSelectable_ignoreDisabled(id) ==
  LET item == ItemOf(id)
  IN IF item.type = "separator" THEN FALSE
     ELSE IF item.type = "submenu" THEN item.submenu # Null
     ELSE item.handler

\* Private.isSelectable(item)
IsSelectable(id) ==
  LET item == ItemOf(id)
  IN IF item.type = "separator" THEN FALSE
     ELSE IF item.disabled THEN FALSE
     ELSE IF item.type = "submenu" THEN item.submenu # Null
     ELSE item.handler

-----------------------------------------------------------------------------
(* Menu: the operations work on a record of the mutable per-menu state *)

MenuState == [parentMenu |-> parentMenu, childMenu |-> childMenu,
              childItem |-> childItem, openTimer |-> openTimer,
              closeTimer |-> closeTimer, activeIndex |-> activeIndex,
              attached |-> attached, threw |-> FALSE]

\* Menu.activeIndex setter, value given doubled
SetActiveIndex(ms, m, k) ==
  LET i0 == Floor(k)
      i1 == IF i0 < 0 \/ i0 >= Len(items[m]) THEN -1 ELSE i0
      i  == IF i1 # -1 /\ ~IsSelectable(At(items[m], i1)) THEN -1 ELSE i1
  IN IF ms.activeIndex[m] = i THEN ms
     ELSE [ms EXCEPT !.activeIndex[m] = i]

\* Menu.activeItem getter
ActiveItem(ms, m) ==
  IF ms.activeIndex[m] # -1 THEN At(items[m], ms.activeIndex[m]) ELSE Null

\* Menu.activeItemNode getter
ActiveItemNode(ms, m) ==
  IF ms.activeIndex[m] # -1 THEN At(itemNodes[m], ms.activeIndex[m]) ELSE Null

\* Menu._cancelPendingOpen()
CancelPendingOpen(ms, m) ==
  IF ms.openTimer[m] # Null THEN [ms EXCEPT !.openTimer[m] = Null] ELSE ms

\* Menu._cancelPendingClose()
CancelPendingClose(ms, m) ==
  IF ms.closeTimer[m] THEN [ms EXCEPT !.closeTimer[m] = FALSE] ELSE ms

\* Widget.attach(menu, document.body): throws for an attached widget,
\* otherwise 'after-attach' sets the IsAttached flag
WidgetAttach(ms, m) ==
  IF ms.attached[m] THEN [ms EXCEPT !.threw = TRUE]
  ELSE [ms EXCEPT !.attached[m] = TRUE]

\* Widget.detach(menu): 'before-detach' clears the IsAttached flag
WidgetDetach(ms, m) == [ms EXCEPT !.attached[m] = FALSE]

RECURSIVE OnCloseRequest(_, _)

\* onCloseRequest: cancel any pending open or close, reset the active index
CloseRequestReset(ms, m) ==
  SetActiveIndex(CancelPendingClose(CancelPendingOpen(ms, m), m), m, -2)

\* onCloseRequest: close any open child menu; childMenu.close() sends the
\* child a 'close-request' in turn
CloseRequestChild(ms, m) ==
  IF ms.childMenu[m] # Null
  THEN OnCloseRequest([ms EXCEPT !.childMenu[m] = Null,
                                 !.childItem[m] = Null,
                                 !.parentMenu[ms.childMenu[m]] = Null],
                      ms.childMenu[m])
  ELSE ms

\* parentMenu._childMenu = null; parentMenu._childItem = null
ClearChildLink(ms, parent) ==
  [ms EXCEPT !.childMenu[parent] = Null, !.childItem[parent] = Null]

\* onCloseRequest: remove this menu from any parent
CloseRequestParent(ms, m) ==
  IF ms.parentMenu[m] # Null
  THEN ClearChildLink(
         CancelPendingClose(
           CancelPendingOpen([ms EXCEPT !.parentMenu[m] = Null], ms.parentMenu[m]),
           ms.parentMenu[m]),
         ms.parentMenu[m])
  ELSE ms

\* onCloseRequest: ensure this menu is detached
CloseRequestDetach(ms, m) == IF ms.attached[m] THEN WidgetDetach(ms, m) ELSE ms

\* onCloseRequest that leaves the child menu open
OnCloseRequest_keepChild(ms, m) ==
  CloseRequestDetach(CloseRequestParent(CloseRequestReset(ms, m), m), m)

\* Menu.onCloseRequest(msg)
OnCloseRequest(ms, m) ==
  CloseRequestDetach(
    CloseRequestParent(CloseRequestChild(CloseRequestReset(ms, m), m), m), m)

\* Widget.close(): sends 'close-request' to the widget
Close(ms, m) == OnCloseRequest(ms, m)

\* Private.openSubmenu(menu, itemNode) / Private.openRootMenu(menu, ...):
\* as far as the widget state goes, both attach the menu to the body
OpenSubmenu(ms, menu) == WidgetAttach(ms, menu)
OpenRootMenu(ms, menu) == WidgetAttach(ms, menu)

\* Menu._openChildMenu(item, node)
OpenChildMenu(ms, m, item) ==
  IF item = ms.childItem[m] THEN ms
  ELSE LET ms1  == CancelPendingOpen(ms, m)
           menu == ItemOf(item).submenu
           ms2  == [ms1 EXCEPT !.childItem[m] = item,
                               !.childMenu[m] = menu,
                               !.parentMenu[menu] = m]
       IN OpenSubmenu(ms2, menu)

\* Menu._openChildMenuDelayed(item, node): arms the open timer
OpenChildMenuDelayed(ms, m, item) ==
  IF item = ms.childItem[m] THEN ms
  ELSE [CancelPendingOpen(ms, m) EXCEPT !.openTimer[m] = item]

\* Menu._closeChildMenu(): arms the close timer
CloseChildMenu(ms, m) ==
  IF ms.closeTimer[m] \/ ms.childMenu[m] = Null THEN ms
  ELSE [ms EXCEPT !.closeTimer[m] = TRUE]

\* The callback of the close timer once the timer id is cleared
CloseTimerChild(ms, m) ==
  IF ms.childMenu[m] = Null THEN ms
  ELSE Close([ms EXCEPT !.childMenu[m] = Null, !.childItem[m] = Null,
                        !.parentMenu[ms.childMenu[m]] = Null],
             ms.childMenu[m])

\* The callback of the close timer
CloseTimerFired(ms, m) == CloseTimerChild([ms EXCEPT !.closeTimer[m] = FALSE], m)

\* The callback of the open timer
OpenTimerFired(ms, m) ==
  OpenChildMenu([ms EXCEPT !.openTimer[m] = Null], m, ms.openTimer[m])

\* Menu._syncAncestors()
RECURSIVE SyncAncestorsFrom(_, _, _)
SyncAncestorsFrom(ms, menu, fuel) ==
  IF menu = Null \/ fuel = 0 THEN ms
  ELSE LET a == CancelPendingClose(CancelPendingOpen(ms, menu), menu)
           b == SetActiveIndex(a, menu, 2 * IndexOf(items[menu], a.childItem[menu]))
       IN SyncAncestorsFrom(b, b.parentMenu[menu], fuel - 1)

SyncAncestors(ms, m) == SyncAncestorsFrom(ms, ms.parentMenu[m], NumMenus)

\* Menu._evtMouseUp(event): i is the index of the item node under the mouse
EvtMouseUp(ms, m, button, i) ==
  IF button # 0 THEN ms
  ELSE IF i # ms.activeIndex[m] THEN ms
  ELSE LET item == ActiveItem(ms, m)
       IN IF item = Null \/ ItemOf(item).submenu = Null THEN ms
          ELSE IF item = ms.childItem[m] THEN CancelPendingClose(ms, m)
          ELSE OpenChildMenu(CloseChildMenu(ms, m), m, item)

\* Menu._evtMouseMove(event)
EvtMouseMove(ms, m, i) ==
  IF i = ms.activeIndex[m] THEN ms
  ELSE CancelPendingOpen(SyncAncestors(SetActiveIndex(ms, m, 2 * i), m), m)

\* Menu._evtMouseLeave(event): overChild is hitTest(child.node, x, y)
EvtMouseLeave(ms, m, overChild) ==
  LET ms1 == CancelPendingOpen(ms, m)
  IN IF ms1.childMenu[m] # Null /\ overChild THEN ms1
     ELSE CloseChildMenu(SetActiveIndex(ms1, m, -2), m)

\* The hit test loop of _evtMouseDown over the menu and its child menus
RECURSIVE HitChain(_, _, _, _)
HitChain(ms, menu, hits, fuel) ==
  IF menu = Null \/ fuel = 0 THEN FALSE
  ELSE IF menu \in hits THEN TRUE
  ELSE HitChain(ms, ms.childMenu[menu], hits, fuel - 1)

\* Menu._evtMouseDown(event): hits are the menus whose node holds the point
EvtMouseDown(ms, m, hits) ==
  IF ms.parentMenu[m] # Null THEN ms
  ELSE IF HitChain(ms, m, hits, NumMenus + 1) THEN ms
  ELSE Close(ms, m)

\* A document 'mousedown' reaches the listener of every attached menu
RECURSIVE DispatchMouseDown(_, _, _)
DispatchMouseDown(ms, m, hits) ==
  IF m > NumMenus THEN ms
  ELSE DispatchMouseDown(IF ms.attached[m] THEN EvtMouseDown(ms, m, hits) ELSE ms,
                         m + 1, hits)

\* Menu.open(x, y)
Open(ms, m) == IF ms.attached[m] THEN ms ELSE OpenRootMenu(ms, m)

MenuCommit(ms, op) ==
  /\ parentMenu' = ms.parentMenu
  /\ childMenu' = ms.childMenu
  /\ childItem' = ms.childItem
  /\ openTimer' = ms.openTimer
  /\ closeTimer' = ms.closeTimer
  /\ activeIndex' = ms.activeIndex
  /\ attached' = ms.attached
  /\ menuThrew' = ms.threw
  /\ menuOp' = op
  /\ closeTarget' = [m \in Menus |->
                       IF ~ms.closeTimer[m] THEN Null
                       ELSE IF closeTimer[m] THEN closeTarget[m]
                       ELSE childMenu[m]]

MenuOp(name, m, arg) == [op |-> name, menu |-> m, arg |-> arg]

-----------------------------------------------------------------------------
(* Menu actions *)

MenuInit ==
  /\ items = [m \in Menus |-> BuiltItems(m)]
  /\ itemNodes = [m \in Menus |-> [p \in 1..Len(BuiltItems(m)) |-> 10 * m + p]]
  /\ contentDom = itemNodes
  /\ parentMenu = [m \in Menus |-> Null]
  /\ childMenu = [m \in Menus |-> Null]
  /\ childItem = [m \in Menus |-> Null]
  /\ openTimer = [m \in Menus |-> Null]
  /\ closeTimer = [m \in Menus |-> FALSE]
  /\ activeIndex = [m \in Menus |-> -1]
  /\ attached = [m \in Menus |-> FALSE]
  /\ menuOp = MenuOp("init", Null, 0)
  /\ menuThrew = FALSE
  /\ closeTarget = [m \in Menus |-> Null]

\* The menus reached from m through the childMenu links
RECURSIVE ChainFrom(_, _)
ChainFrom(menu, fuel) ==
  IF menu = Null \/ fuel = 0 THEN {}
  ELSE {menu} \cup ChainFrom(childMenu[menu], fuel - 1)

ChainBelow(m) == ChainFrom(childMenu[m], NumMenus)

HitIndexes(m) == (-1)..(Len(items[m]) - 1)

menuOpen ==
  \E m \in Menus :
    /\ MenuCommit(Open(MenuState, m), MenuOp("open", m, 0))
    /\ UNCHANGED <<items, itemNodes, contentDom, otherThanMenu>>

menuClose ==
  \E m \in Menus :
    /\ MenuCommit(Close(MenuState, m),
                  [op |-> "close", menu |-> m, arg |-> 0,
                   preParent |-> parentMenu[m], preChain |-> ChainBelow(m)])
    /\ UNCHANGED <<items, itemNodes, contentDom, otherThanMenu>>

menuMouseMove ==
  \E m \in Menus : \E i \in HitIndexes(m) :
    /\ attached[m]
    /\ MenuCommit(EvtMouseMove(MenuState, m, i), MenuOp("mousemove", m, i))
    /\ UNCHANGED <<items, itemNodes, contentDom, otherThanMenu>>

menuMouseUp ==
  \E m \in Menus : \E i \in HitIndexes(m) : \E button \in {0, 2} :
    /\ attached[m]
    /\ MenuCommit(EvtMouseUp(MenuState, m, button, i), MenuOp("mouseup", m, i))
    /\ UNCHANGED <<items, itemNodes, contentDom, otherThanMenu>>

menuMouseLeave ==
  \E m \in Menus : \E overChild \in BOOLEAN :
    /\ attached[m]
    /\ overChild => (childMenu[m] # Null /\ attached[childMenu[m]])
    /\ MenuCommit(EvtMouseLeave(MenuState, m, overChild), MenuOp("mouseleave", m, 0))
    /\ UNCHANGED <<items, itemNodes, contentDom, otherThanMenu>>

menuMouseDown ==
  \E hits \in SUBSET {m \in Menus : attached[m]} :
    /\ \E m \in Menus : attached[m]
    /\ MenuCommit(DispatchMouseDown(MenuState, 1, hits), MenuOp("mousedown", Null, 0))
    /\ UNCHANGED <<items, itemNodes, contentDom, otherThanMenu>>

menuCloseTimer ==
  \E m \in Menus :
    /\ closeTimer[m]
    /\ MenuCommit(CloseTimerFired(MenuState, m), MenuOp("closeTimer", m, 0))
    /\ UNCHANGED <<items, itemNodes, contentDom, otherThanMenu>>

\* The menu whose items are edited, and the items and values used on it
ItemsMenu == NumMenus
EditItems == {1, 3, 4, 6, 7, 8}
ValueArgs == (-3)..(2 * MaxItems + 2)

\* renderer.createItemNode(): a node that is not in the menu
FreshNode(m) ==
  CHOOSE n \in 1..(Len(itemNodes[m]) + 1) :
    /\ \A p \in 1..Len(itemNodes[m]) : itemNodes[m][p] # n
    /\ \A n2 \in 1..(n - 1) : \E p \in 1..Len(itemNodes[m]) : itemNodes[m][p] = n2

ItemsCommit(m, newItems, newNodes, newDom, op) ==
  /\ items' = [items EXCEPT ![m] = newItems]
  /\ itemNodes' = [itemNodes EXCEPT ![m] = newNodes]
  /\ contentDom' = [contentDom EXCEPT ![m] = newDom]
  /\ MenuCommit(SetActiveIndex(MenuState, m, -2), op)

\* Menu.insertItem(index, item)
InsertItem(m, k, item) ==
  LET i    == ClampIndex(k, Len(items[m]))
      node == FreshNode(m)
      ns   == InsertAt(itemNodes[m], i, node)
      ref  == IF i + 1 < Len(ns) THEN At(ns, i + 1) ELSE Null
  IN ItemsCommit(m, InsertAt(items[m], i, item), ns,
                 DomInsertBefore(contentDom[m], node, ref), MenuOp("insertItem", m, 0))

\* Menu.removeItem(index)
RemoveItem(m, k) ==
  LET i == Floor(k)
  IN IF i < 0 \/ i >= Len(items[m])
     THEN /\ MenuCommit(MenuState, MenuOp("removeItem", m, 0))
          /\ UNCHANGED <<items, itemNodes, contentDom>>
     ELSE ItemsCommit(m, RemoveAt(items[m], i), RemoveAt(itemNodes[m], i),
                      DomRemoveChild(contentDom[m], At(itemNodes[m], i)),
                      MenuOp("removeItem", m, 0))

\* Menu.addItem(item) and Menu.insertItem(index, item)
menuInsertItem ==
  \E item \in EditItems : \E k \in ValueArgs \cup {2 * Len(items[ItemsMenu])} :
    /\ Len(items[ItemsMenu]) < MaxItems
    /\ InsertItem(ItemsMenu, k, item)
    /\ UNCHANGED otherThanMenu

menuRemoveItem ==
  \E k \in ValueArgs :
    /\ RemoveItem(ItemsMenu, k)
    /\ UNCHANGED otherThanMenu

\* Menu.clearItems()
menuClearItems ==
  /\ ItemsCommit(ItemsMenu, <<>>, <<>>, <<>>, MenuOp("clearItems", ItemsMenu, 0))
  /\ UNCHANGED otherThanMenu

\* menu.activeIndex = v
menuSetActiveIndex ==
  \E k \in ValueArgs :
    /\ MenuCommit(SetActiveIndex(MenuState, ItemsMenu, k),
                  MenuOp("setActiveIndex", ItemsMenu, k))
    /\ UNCHANGED <<items, itemNodes, contentDom, otherThanMenu>>

\* menu.activeItem = item
menuSetActiveItem ==
  \E item \in EditItems :
    /\ MenuCommit(SetActiveIndex(MenuState, ItemsMenu,
                                 2 * IndexOf(items[ItemsMenu], item)),
                  MenuOp("setActiveItem", ItemsMenu, item))
    /\ UNCHANGED <<items, itemNodes, contentDom, otherThanMenu>>

\* menu.activeItemNode = node
menuSetActiveItemNode ==
  \E node \in 1..(MaxItems + 1) :
    /\ MenuCommit(SetActiveIndex(MenuState, ItemsMenu,
                                 2 * IndexOf(itemNodes[ItemsMenu], node)),
                  MenuOp("setActiveItemNode", ItemsMenu, node))
    /\ UNCHANGED <<items, itemNodes, contentDom, otherThanMenu>>

ItemsNext ==
  \/ menuInsertItem
  \/ menuRemoveItem
  \/ menuClearItems
  \/ menuSetActiveIndex
  \/ menuSetActiveItem
  \/ menuSetActiveItemNode

MenuNext ==
  \/ menuOpen
  \/ menuClose
  \/ menuMouseMove
  \/ menuMouseUp
  \/ menuMouseLeave
  \/ menuMouseDown
  \/ menuCloseTimer

-----------------------------------------------------------------------------
(* MenuBar: the operations work on a record of the bar and its menus *)

BarState == [menus |-> barMenus, nodes |-> barNodes, dom |-> barDom,
             activeIndex |-> barActiveIndex, childMenu |-> barChildMenu,
             listening |-> barListening, ms |-> MenuState, threw |-> FALSE]

\* MenuBar.activeIndex setter, value given doubled
BarSetActiveIndex(bs, k) ==
  LET i0 == Floor(k)
      i  == IF i0 < 0 \/ i0 >= Len(bs.menus) THEN -1 ELSE i0
  IN IF bs.activeIndex = i THEN bs ELSE [bs EXCEPT !.activeIndex = i]

\* MenuBar.activeMenu getter
ActiveMenu(bs) == IF bs.activeIndex # -1 THEN At(bs.menus, bs.activeIndex) ELSE Null

\* MenuBar._onMenuAboutToClose(sender)
OnMenuAboutToClose(bs, sender) ==
  IF sender # bs.childMenu THEN bs
  ELSE BarSetActiveIndex([bs EXCEPT !.listening = FALSE, !.childMenu = Null], -2)

\* The 'close-request' a menu of the bar handles
BarMenuCloseRequest(bs, menu) == [bs EXCEPT !.ms = Close(bs.ms, menu)]

\* menu.close() on a menu of the bar: the menu emits aboutToClose to the
\* connected bar and handles its 'close-request'
BarMenuClose(bs, menu) ==
  BarMenuCloseRequest(IF IndexOf(bs.menus, menu) # -1 THEN OnMenuAboutToClose(bs, menu)
                      ELSE bs,
                      menu)

\* MenuBar._closeChildMenu()
BarCloseChildMenu(bs) ==
  IF bs.childMenu = Null THEN bs
  ELSE BarSetActiveIndex(
         BarMenuClose([bs EXCEPT !.listening = FALSE, !.childMenu = Null], bs.childMenu),
         -2)

\* menu.open(x, y) on a menu of the bar
BarMenuOpen(bs, menu) == [bs EXCEPT !.ms = Open(bs.ms, menu)]

\* _openChildMenu that leaves the old menu open
BarOpenChildMenu_keepOld(bs) ==
  LET newMenu == ActiveMenu(bs)
      oldMenu == bs.childMenu
  IN IF newMenu = Null THEN BarCloseChildMenu(bs)
     ELSE IF oldMenu = newMenu THEN bs
     ELSE BarMenuOpen(IF oldMenu # Null
                      THEN [bs EXCEPT !.childMenu = newMenu]
                      ELSE [bs EXCEPT !.childMenu = newMenu, !.listening = TRUE],
                      newMenu)

\* MenuBar._openChildMenu()
BarOpenChildMenu(bs) ==
  LET newMenu == ActiveMenu(bs)
      oldMenu == bs.childMenu
  IN IF newMenu = Null THEN BarCloseChildMenu(bs)
     ELSE IF oldMenu = newMenu THEN bs
     ELSE BarMenuOpen(IF oldMenu # Null
                      THEN BarMenuClose([bs EXCEPT !.childMenu = newMenu], oldMenu)
                      ELSE [bs EXCEPT !.childMenu = newMenu, !.listening = TRUE],
                      newMenu)

\* this._childMenu.activeIndex = 0: a TypeError when there is no child menu
ActivateFirstItem(bs) ==
  IF bs.childMenu = Null THEN [bs EXCEPT !.threw = TRUE]
  ELSE [bs EXCEPT !.ms = SetActiveIndex(bs.ms, bs.childMenu, 0)]

\* MenuBar.openActiveMenu()
OpenActiveMenu(bs) ==
  IF bs.activeIndex = -1 THEN bs
  ELSE ActivateFirstItem(BarOpenChildMenu(bs))

\* insertMenu moving the menu but not its item node
InsertMenuClosed_menusOnly(bs, k, menu) ==
  LET i  == IndexOf(bs.menus, menu)
      j  == ClampIndex(k, Len(bs.menus))
  IN IF i = -1
     THEN LET ns  == InsertAt(bs.nodes, j, menu)
              ref == IF j + 1 < Len(ns) THEN At(ns, j + 1) ELSE Null
          IN [bs EXCEPT !.nodes = ns, !.menus = InsertAt(bs.menus, j, menu),
                        !.dom = DomInsertBefore(bs.dom, menu, ref)]
     ELSE LET j2 == IF j = Len(bs.menus) THEN j - 1 ELSE j
          IN IF i = j2 THEN bs
             ELSE [bs EXCEPT !.menus = Move(bs.menus, i, j2)]

\* MenuBar.insertMenu(index, menu) once the child menu is closed
InsertMenuClosed(bs, k, menu) ==
  LET i  == IndexOf(bs.menus, menu)
      j  == ClampIndex(k, Len(bs.menus))
  IN IF i = -1
     THEN LET ns  == InsertAt(bs.nodes, j, menu)
              ref == IF j + 1 < Len(ns) THEN At(ns, j + 1) ELSE Null
          IN [bs EXCEPT !.nodes = ns, !.menus = InsertAt(bs.menus, j, menu),
                        !.dom = DomInsertBefore(bs.dom, menu, ref)]
     ELSE LET j2 == IF j = Len(bs.menus) THEN j - 1 ELSE j
          IN IF i = j2 THEN bs
             ELSE LET ns  == Move(bs.nodes, i, j2)
                      ref == IF j2 + 1 < Len(ns) THEN At(ns, j2 + 1) ELSE Null
                  IN [bs EXCEPT !.nodes = ns, !.menus = Move(bs.menus, i, j2),
                                !.dom = DomInsertBefore(bs.dom, At(ns, j2), ref)]

\* MenuBar.insertMenu(index, menu), index given doubled
InsertMenu(bs, k, menu) == InsertMenuClosed(BarCloseChildMenu(bs), k, menu)

\* MenuBar.addMenu(menu)
AddMenu(bs, menu) == InsertMenu(bs, 2 * Len(bs.menus), menu)

\* MenuBar.removeMenu(index) once the child menu is closed
RemoveMenuClosed(bs, i) ==
  [bs EXCEPT !.nodes = RemoveAt(bs.nodes, i),
             !.menus = RemoveAt(bs.menus, i),
             !.dom = DomRemoveChild(bs.dom, At(bs.nodes, i))]

\* MenuBar.removeMenu(index)
RemoveMenu(bs, k) ==
  IF Floor(k) < 0 \/ Floor(k) >= Len(bs.menus) THEN bs
  ELSE RemoveMenuClosed(BarCloseChildMenu(bs), Floor(k))

\* MenuBar.clearMenus()
ClearMenus(bs0) ==
  IF Len(bs0.menus) = 0 THEN bs0
  ELSE [BarCloseChildMenu(bs0) EXCEPT !.nodes = <<>>, !.menus = <<>>, !.dom = <<>>]

\* MenuBar._evtKeyDown(event)
BarEvtKeyDown(bs, keyCode) ==
  CASE keyCode \in {13, 38, 40} -> OpenActiveMenu(bs)
    [] keyCode = 27 -> BarSetActiveIndex(BarCloseChildMenu(bs), -2)
    [] keyCode = 37 ->
         BarSetActiveIndex(bs, 2 * (IF bs.activeIndex = 0 THEN Len(bs.menus) - 1
                                    ELSE bs.activeIndex - 1))
    [] keyCode = 39 ->
         BarSetActiveIndex(bs, 2 * (IF bs.activeIndex = Len(bs.menus) - 1 THEN 0
                                    ELSE bs.activeIndex + 1))
    [] OTHER -> bs

\* MenuBar._evtMouseDown(event): onBar is hitTest(this.node, x, y), i the
\* index of the item node under the mouse
BarEvtMouseDown(bs, onBar, i, button) ==
  IF ~onBar THEN bs
  ELSE IF i = -1 THEN BarCloseChildMenu(bs)
  ELSE IF button # 0 THEN bs
  ELSE IF bs.childMenu # Null
       THEN BarSetActiveIndex(BarCloseChildMenu(bs), 2 * i)
       ELSE BarOpenChildMenu(BarSetActiveIndex(bs, 2 * i))

\* MenuBar._evtMouseMove(event)
BarEvtMouseMove(bs, i) ==
  IF i = bs.activeIndex THEN bs
  ELSE IF i = -1 /\ bs.childMenu # Null THEN bs
  ELSE LET bs1 == BarSetActiveIndex(bs, 2 * i)
       IN IF bs1.childMenu # Null THEN BarOpenChildMenu(bs1) ELSE bs1

\* MenuBar._evtMouseLeave(event)
BarEvtMouseLeave(bs) ==
  IF bs.childMenu = Null THEN BarSetActiveIndex(bs, -2) ELSE bs

\* MenuBar._onEdgeRequested(sender, args)
OnEdgeRequested(bs, args) ==
  LET i == bs.activeIndex
      n == Len(bs.menus)
  IN OpenActiveMenu(IF args = "left"
                    THEN BarSetActiveIndex(bs, 2 * (IF i = 0 THEN n - 1 ELSE i - 1))
                    ELSE BarSetActiveIndex(bs, 2 * (IF i = n - 1 THEN 0 ELSE i + 1)))

BarCommit(bs, op) ==
  /\ barMenus' = bs.menus
  /\ barNodes' = bs.nodes
  /\ barDom' = bs.dom
  /\ barActiveIndex' = bs.activeIndex
  /\ barChildMenu' = bs.childMenu
  /\ barListening' = bs.listening
  /\ barThrew' = bs.threw
  /\ parentMenu' = bs.ms.parentMenu
  /\ childMenu' = bs.ms.childMenu
  /\ childItem' = bs.ms.childItem
  /\ openTimer' = bs.ms.openTimer
  /\ closeTimer' = bs.ms.closeTimer
  /\ activeIndex' = bs.ms.activeIndex
  /\ attached' = bs.ms.attached
  /\ barOp' = op
  /\ UNCHANGED otherThanBar

BarOp(name, arg, menu) ==
  [op |-> name, arg |-> arg, menu |-> menu, pre |-> <<>>, preActive |-> Null]

\* The menus a bar is given
BarMenuIds == 1..Min(NumBarMenus, NumMenus)

-----------------------------------------------------------------------------
(* MenuBar actions *)

BarInit ==
  /\ barMenus = <<>>
  /\ barNodes = <<>>
  /\ barDom = <<>>
  /\ barActiveIndex = -1
  /\ barChildMenu = Null
  /\ barListening = FALSE
  /\ barAttached = FALSE
  /\ barOp = [op |-> "init", arg |-> 0, menu |-> Null, pre |-> <<>>, preActive |-> Null]
  /\ barThrew = FALSE

BarHitIndexes == (-1)..(Len(barMenus) - 1)

barAddMenu ==
  \E m \in BarMenuIds :
    \E bs \in {AddMenu(BarState, m)} :
      /\ BarCommit(bs, [BarOp("insertMenu", 2 * Len(barMenus), m) EXCEPT !.pre = barMenus])
      /\ UNCHANGED barAttached

barInsertMenu ==
  \E m \in BarMenuIds, k \in IndexArgs :
    \E bs \in {InsertMenu(BarState, k, m)} :
      /\ BarCommit(bs, [BarOp("insertMenu", k, m) EXCEPT !.pre = barMenus])
      /\ UNCHANGED barAttached

barRemoveMenu ==
  \E k \in IndexArgs :
    \E bs \in {RemoveMenu(BarState, k)} :
      /\ BarCommit(bs, BarOp("removeMenu", 0, Null))
      /\ UNCHANGED barAttached

barClearMenus ==
  \E bs \in {ClearMenus(BarState)} :
    /\ BarCommit(bs, BarOp("clearMenus", 0, Null))
    /\ UNCHANGED barAttached

barSetActiveIndex ==
  \E k \in IndexArgs :
    \E bs \in {BarSetActiveIndex(BarState, k)} :
      /\ BarCommit(bs, BarOp("setActiveIndex", 0, Null))
      /\ UNCHANGED barAttached

barOpenActiveMenu ==
  \E bs0 \in {BarState} :
    \E bs \in {OpenActiveMenu(bs0)} :
      /\ BarCommit(bs, [BarOp("openActiveMenu", 0, Null) EXCEPT
                          !.arg = IF bs0 = [bs EXCEPT !.threw = FALSE] THEN 0 ELSE 1,
                          !.preActive = ActiveMenu(bs0)])
      /\ UNCHANGED barAttached

barKeyDown ==
  \E keyCode \in {13, 27, 37, 39} :
    /\ barAttached
    /\ \E bs \in {BarEvtKeyDown(BarState, keyCode)} :
         BarCommit(bs, BarOp("keydown", 0, Null))
    /\ UNCHANGED barAttached

barMouseDown ==
  \E i \in BarHitIndexes, button \in {0, 2} :
    /\ barAttached
    /\ \E bs \in {BarEvtMouseDown(BarState, TRUE, i, button)} :
         BarCommit(bs, BarOp("mousedown", 0, Null))
    /\ UNCHANGED barAttached

barMouseMove ==
  \E i \in BarHitIndexes :
    /\ barAttached
    /\ \E bs \in {BarEvtMouseMove(BarState, i)} :
         BarCommit(bs, BarOp("mousemove", 0, barChildMenu))
    /\ UNCHANGED barAttached

barMouseLeave ==
  /\ barAttached
  /\ \E bs \in {BarEvtMouseLeave(BarState)} :
       BarCommit(bs, BarOp("mouseleave", 0, Null))
  /\ UNCHANGED barAttached

\* A press outside the bar and outside the open menu: the bar's document
\* listener bails, the root menu's own listener closes the menu
barMenuCloses ==
  \E m \in Menus :
    /\ attached[m] /\ parentMenu[m] = Null
    /\ \E bs \in {BarMenuClose(BarEvtMouseDown(BarState, FALSE, -1, 0), m)} :
         BarCommit(bs, BarOp("menuCloses", 0, Null))
    /\ UNCHANGED barAttached

\* The open menu asks for the menu at its left or right edge
barEdgeRequested ==
  \E args \in {"left", "right"} :
    /\ barChildMenu # Null
    /\ \E bs \in {OnEdgeRequested(BarState, args)} :
         BarCommit(bs, BarOp("edgeRequested", 0, Null))
    /\ UNCHANGED barAttached

\* MenuBar.onAfterAttach(msg)
barAttach ==
  /\ ~barAttached
  /\ barAttached' = TRUE
  /\ \E bs \in {BarState} : BarCommit(bs, BarOp("attach", 0, Null))

\* MenuBar.onBeforeDetach(msg)
barDetach ==
  /\ barAttached
  /\ barAttached' = FALSE
  /\ \E bs \in {BarCloseChildMenu(BarState)} : BarCommit(bs, BarOp("detach", 0, Null))

BarNext ==
  \/ barAddMenu
  \/ barInsertMenu
  \/ barRemoveMenu
  \/ barClearMenus
  \/ barSetActiveIndex
  \/ barOpenActiveMenu
  \/ barKeyDown
  \/ barMouseDown
  \/ barMouseMove
  \/ barMouseLeave
  \/ barMenuCloses
  \/ barEdgeRequested
  \/ barAttach
  \/ barDetach

-----------------------------------------------------------------------------
(* TabBar: the operations work on a record of the mutable state *)

TabState == [titles |-> titles, tabs |-> tabs, dom |-> tabDom,
             currentIndex |-> currentIndex, dragData |-> dragData,
             docListeners |-> docListeners, threw |-> FALSE]

DragListeners == {"mousemove", "mouseup", "keydown", "contextmenu"}

\* TabBar.currentIndex setter: its body holds no statement
SetCurrentIndex(ts, k) == ts

\* TabBar.currentTab getter
CurrentTab(ts) == IF ts.currentIndex # -1 THEN At(ts.tabs, ts.currentIndex) ELSE Null

\* TabBar.currentTitle getter
CurrentTitle(ts) == IF ts.currentIndex # -1 THEN At(ts.titles, ts.currentIndex) ELSE Null

\* _releaseMouse that drops the drag data but keeps the listeners
ReleaseMouse_keepListeners(ts) ==
  IF ~ts.dragData THEN ts ELSE [ts EXCEPT !.dragData = FALSE]

\* TabBar._releaseMouse(): DragData has no dragActive field, so the
\* release ends after clearing the drag data
ReleaseMouse(ts) ==
  IF ~ts.dragData THEN ts
  ELSE [ts EXCEPT !.docListeners = @ \ DragListeners, !.dragData = FALSE]

\* insertTab that never looks the title up
InsertTab_noLookup(ts0, k, title) ==
  LET ts == ReleaseMouse(ts0)
      j  == ClampIndex(k, Len(ts.titles))
      tb == InsertAt(ts.tabs, j, title)
      ref == IF j + 1 < Len(tb) THEN At(tb, j + 1) ELSE Null
  IN [ts EXCEPT !.tabs = tb, !.titles = InsertAt(ts.titles, j, title),
                !.dom = DomInsertBefore(ts.dom, title, ref)]

\* TabBar.insertTab(index, title), index given doubled
InsertTab(ts0, k, title) ==
  LET ts == ReleaseMouse(ts0)
      i  == IndexOf(ts.titles, title)
      j  == ClampIndex(k, Len(ts.titles))
  IN IF i = -1
     THEN LET tb  == InsertAt(ts.tabs, j, title)
              ref == IF j + 1 < Len(tb) THEN At(tb, j + 1) ELSE Null
          IN [ts EXCEPT !.tabs = tb, !.titles = InsertAt(ts.titles, j, title),
                        !.dom = DomInsertBefore(ts.dom, title, ref)]
     ELSE LET j2 == IF j = Len(ts.titles) THEN j - 1 ELSE j
          IN IF i = j2 THEN ts
             ELSE LET tb  == Move(ts.tabs, i, j2)
                      ref == IF j2 + 1 < Len(tb) THEN At(tb, j2 + 1) ELSE Null
                  IN [ts EXCEPT !.tabs = tb, !.titles = Move(ts.titles, i, j2),
                                !.dom = DomInsertBefore(ts.dom, At(tb, j2), ref)]

\* TabBar.addTab(title)
AddTab(ts, title) == InsertTab(ts, 2 * Len(ts.titles), title)

\* TabBar.removeTab(title)
RemoveTab(ts0, title) ==
  LET i == IndexOf(ts0.titles, title)
  IN IF i = -1 THEN ts0
     ELSE LET ts  == ReleaseMouse(ts0)
              tab == At(ts.tabs, i)
          IN [ts EXCEPT !.tabs = RemoveAt(ts.tabs, i),
                        !.titles = RemoveAt(ts.titles, i),
                        !.dom = DomRemoveChild(ts.dom, tab)]

\* TabBar._evtKeyDown(event)
TabEvtKeyDown(ts, keyCode) == IF keyCode = 27 THEN ReleaseMouse(ts) ELSE ts

\* TabBar._evtMouseDown(event): index is the tab under the mouse, onIcon
\* says whether the press is on its close icon
TabEvtMouseDown(ts, button, index, onIcon) ==
  IF button # 0 THEN ts
  ELSE IF ts.dragData THEN ts
  ELSE IF index < 0 THEN ts
  ELSE IF onIcon THEN ts
  ELSE IF tabsMovable
       THEN [ts EXCEPT !.dragData = TRUE, !.docListeners = @ \cup DragListeners]
       ELSE ts

\* TabBar.handleEvent(event) for 'mousemove' and 'mouseup': the methods
\* _evtMouseMove and _evtMouseUp it calls are not defined
TabEvtUndefinedHandler(ts) == [ts EXCEPT !.threw = TRUE]

TabCommit(ts, op) ==
  /\ titles' = ts.titles
  /\ tabs' = ts.tabs
  /\ tabDom' = ts.dom
  /\ currentIndex' = ts.currentIndex
  /\ dragData' = ts.dragData
  /\ docListeners' = ts.docListeners
  /\ tabThrew' = ts.threw
  /\ tabOp' = op
  /\ UNCHANGED otherThanTab

TabOp(name, arg, title) == [op |-> name, arg |-> arg, title |-> title, pre |-> <<>>]

-----------------------------------------------------------------------------
(* TabBar actions *)

TabInit ==
  /\ titles = <<>>
  /\ tabs = <<>>
  /\ tabDom = <<>>
  /\ currentIndex = -1
  /\ tabsMovable = FALSE
  /\ dragData = FALSE
  /\ docListeners = {}
  /\ tabAttached = FALSE
  /\ tabOp = TabOp("init", 0, Null)
  /\ tabThrew = FALSE

tabAddTab ==
  \E t \in Titles :
    /\ TabCommit(AddTab(TabState, t),
                 [TabOp("insertTab", 2 * Len(titles), t) EXCEPT !.pre = titles])
    /\ UNCHANGED <<tabsMovable, tabAttached>>

tabInsertTab ==
  \E t \in Titles, k \in IndexArgs :
    /\ TabCommit(InsertTab(TabState, k, t),
                 [TabOp("insertTab", k, t) EXCEPT !.pre = titles])
    /\ UNCHANGED <<tabsMovable, tabAttached>>

tabRemoveTab ==
  \E t \in Titles :
    /\ TabCommit(RemoveTab(TabState, t), [TabOp("removeTab", 0, t) EXCEPT !.pre = titles])
    /\ UNCHANGED <<tabsMovable, tabAttached>>

\* tabBar.currentIndex = v
tabSetCurrentIndex ==
  \E k \in IndexArgs :
    /\ TabCommit(SetCurrentIndex(TabState, k), TabOp("setCurrentIndex", k, Null))
    /\ UNCHANGED <<tabsMovable, tabAttached>>

\* tabBar.currentTitle = title
tabSetCurrentTitle ==
  \E t \in Titles :
    /\ TabCommit(SetCurrentIndex(TabState, 2 * IndexOf(titles, t)),
                 TabOp("setCurrentTitle", 0, t))
    /\ UNCHANGED <<tabsMovable, tabAttached>>

\* tabBar.currentTab = tab
tabSetCurrentTab ==
  \E t \in Titles :
    /\ TabCommit(SetCurrentIndex(TabState, 2 * IndexOf(tabs, t)),
                 TabOp("setCurrentTab", 0, t))
    /\ UNCHANGED <<tabsMovable, tabAttached>>

\* tabBar.tabsMovable = value
tabSetTabsMovable ==
  \E v \in BOOLEAN :
    /\ tabsMovable' = v
    /\ TabCommit(TabState, TabOp("setTabsMovable", 0, Null))
    /\ UNCHANGED tabAttached

\* TabBar.releaseMouse()
tabReleaseMouse ==
  /\ TabCommit(ReleaseMouse(TabState), [TabOp("releaseMouse", 0, Null) EXCEPT
                                          !.arg = IF dragData THEN 1 ELSE 0])
  /\ UNCHANGED <<tabsMovable, tabAttached>>

\* A 'mousedown' on the tab bar node
tabMouseDown ==
  \E button \in {0, 2}, index \in (-1)..(Len(tabs) - 1), onIcon \in BOOLEAN :
    /\ tabAttached
    /\ onIcon => index >= 0
    /\ TabCommit(TabEvtMouseDown(TabState, button, index, onIcon),
                 [op |-> "mousedown", arg |-> IF dragData THEN 1 ELSE 0,
                  title |-> Null, pre |-> <<>>,
                  button |-> button, index |-> index, onIcon |-> onIcon])
    /\ UNCHANGED <<tabsMovable, tabAttached>>

\* A document 'keydown' during a drag
tabKeyDown ==
  \E keyCode \in {27, 13} :
    /\ "keydown" \in docListeners
    /\ TabCommit(TabEvtKeyDown(TabState, keyCode), TabOp("keydown", keyCode, Null))
    /\ UNCHANGED <<tabsMovable, tabAttached>>

\* A document 'mouseup' or 'mousemove' during a drag
tabMouseUpOrMove ==
  \E type \in {"mouseup", "mousemove"}, button \in {0, 2} :
    /\ type \in docListeners
    /\ TabCommit(TabEvtUndefinedHandler(TabState), TabOp(type, button, Null))
    /\ UNCHANGED <<tabsMovable, tabAttached>>

\* TabBar.onAfterAttach(msg)
tabAttach ==
  /\ ~tabAttached
  /\ tabAttached' = TRUE
  /\ TabCommit(TabState, TabOp("attach", 0, Null))
  /\ UNCHANGED tabsMovable

\* TabBar.onBeforeDetach(msg)
tabDetach ==
  /\ tabAttached
  /\ tabAttached' = FALSE
  /\ TabCommit(ReleaseMouse(TabState), TabOp("detach", IF dragData THEN 1 ELSE 0, Null))
  /\ UNCHANGED tabsMovable

TabNext ==
  \/ tabAddTab
  \/ tabInsertTab
  \/ tabRemoveTab
  \/ tabSetCurrentIndex
  \/ tabSetCurrentTitle
  \/ tabSetCurrentTab
  \/ tabSetTabsMovable
  \/ tabReleaseMouse
  \/ tabMouseDown
  \/ tabKeyDown
  \/ tabMouseUpOrMove
  \/ tabAttach
  \/ tabDetach

-----------------------------------------------------------------------------
(* overrideCursor: the operations work on a record of the module state *)

Cursors == {"wait", "pointer"}

CursorState == [overrideID |-> overrideID, cursor |-> bodyCursor,
                class |-> bodyClass, disposed |-> disposed]

\* overrideCursor(cursor): the returned disposable captures id
OverrideCursor(cs, cursor) ==
  [cs EXCEPT !.overrideID = @ + 1, !.cursor = cursor, !.class = TRUE]

\* the callback of a disposable that clears whatever override is active
OverrideCallback_noIdCheck(cs, id) == [cs EXCEPT !.cursor = "", !.class = FALSE]

\* The callback given to the DisposableDelegate made for override id
OverrideCallback(cs, id) ==
  IF id = cs.overrideID THEN [cs EXCEPT !.cursor = "", !.class = FALSE] ELSE cs

\* DisposableDelegate.dispose(): runs the callback the first time only
DisposeOverride(cs, id) ==
  IF id \in cs.disposed THEN cs
  ELSE OverrideCallback([cs EXCEPT !.disposed = @ \cup {id}], id)

CursorCommit(cs, op) ==
  /\ overrideID' = cs.overrideID
  /\ bodyCursor' = cs.cursor
  /\ bodyClass' = cs.class
  /\ disposed' = cs.disposed
  /\ cursorOp' = op
  /\ UNCHANGED otherThanCursor

CursorInit ==
  /\ overrideID = 0
  /\ bodyCursor = ""
  /\ bodyClass = FALSE
  /\ disposed = {}
  /\ cursorOp = [op |-> "init", id |-> 0, latest |-> FALSE, first |-> FALSE]

\* overrideCursor(cursor)
cursorOverride ==
  \E cursor \in Cursors :
    /\ overrideID < MaxOverrides
    /\ \E cs \in {OverrideCursor(CursorState, cursor)} :
         CursorCommit(cs, [op |-> "override", id |-> cs.overrideID,
                           latest |-> TRUE, first |-> TRUE])

\* override.dispose() on the disposable of any override made so far
cursorDispose ==
  \E id \in 1..overrideID :
    \E cs \in {DisposeOverride(CursorState, id)} :
      CursorCommit(cs, [op |-> "dispose", id |-> id, latest |-> (id = overrideID),
                        first |-> (id \notin disposed)])

CursorNext ==
  \/ cursorOverride
  \/ cursorDispose

-----------------------------------------------------------------------------
(* setGeometry / resetGeometry on one widget *)

\* The number NaN, apart from every pixel value
NaN == -1

Pixels == 0..MaxPixels

\* The widths and heights a caller can pass
Numbers == Pixels \cup {NaN}

\* The left and top offsets a caller can pass
Offsets == {0, 1}

\* a !== b on numbers: NaN is not equal to itself
StrictNotEqual(a, b) == a = NaN \/ b = NaN \/ a # b

\* Private.rectProperty's create()
NewRect == [top |-> NaN, left |-> NaN, width |-> NaN, height |-> NaN]

\* setGeometry whose resized flag follows the width only
SetGeometry_widthOnly(r, left, top, width, height) ==
  [rect |-> [top    |-> IF StrictNotEqual(r.top, top) THEN top ELSE r.top,
             left   |-> IF StrictNotEqual(r.left, left) THEN left ELSE r.left,
             width  |-> IF StrictNotEqual(r.width, width) THEN width ELSE r.width,
             height |-> IF StrictNotEqual(r.height, height) THEN height ELSE r.height],
   sent |-> IF StrictNotEqual(r.width, width)
            THEN <<[type |-> "resize", width |-> width, height |-> height]>>
            ELSE <<>>]

\* setGeometry(widget, left, top, width, height) on the widget's rect r:
\* the rect afterwards and the messages sent
SetGeometry(r, left, top, width, height) ==
  [rect |-> [top    |-> IF StrictNotEqual(r.top, top) THEN top ELSE r.top,
             left   |-> IF StrictNotEqual(r.left, left) THEN left ELSE r.left,
             width  |-> IF StrictNotEqual(r.width, width) THEN width ELSE r.width,
             height |-> IF StrictNotEqual(r.height, height) THEN height ELSE r.height],
   sent |-> IF StrictNotEqual(r.width, width) \/ StrictNotEqual(r.height, height)
            THEN <<[type |-> "resize", width |-> width, height |-> height]>>
            ELSE <<>>]

\* resetGeometry(widget)
ResetGeometry(r) ==
  [rect |-> [top |-> NaN, left |-> NaN, width |-> NaN, height |-> NaN], sent |-> <<>>]

GeomInit ==
  /\ rect = NewRect
  /\ geomSet = FALSE
  /\ geomOp = [op |-> "init", args |-> NewRect, pre |-> NewRect, preSet |-> FALSE,
               sent |-> <<>>]

geomSetGeometry ==
  \E left \in Offsets, top \in Offsets, width \in Numbers, height \in Numbers :
    \E g \in {SetGeometry(rect, left, top, width, height)} :
      /\ rect' = g.rect
      /\ geomSet' = TRUE
      /\ geomOp' = [op |-> "setGeometry",
                    args |-> [top |-> top, left |-> left, width |-> width,
                              height |-> height],
                    pre |-> rect, preSet |-> geomSet, sent |-> g.sent]
      /\ UNCHANGED otherThanGeom

geomResetGeometry ==
  \E g \in {ResetGeometry(rect)} :
    /\ rect' = g.rect
    /\ geomSet' = FALSE
    /\ geomOp' = [op |-> "resetGeometry", args |-> NewRect, pre |-> rect,
                  preSet |-> geomSet, sent |-> g.sent]
    /\ UNCHANGED otherThanGeom

GeomNext ==
  \/ geomSetGeometry
  \/ geomResetGeometry

-----------------------------------------------------------------------------
(* Layout.parent and Layout.dispose *)

Hosts == 1..NumHosts

LayoutState == [parent |-> layParent, disposed |-> layDisposed, threw |-> FALSE]

\* the parent setter without the 'Cannot change parent widget.' check
SetParent_noChangeCheck(ls, value) ==
  IF value = Null THEN [ls EXCEPT !.threw = TRUE]
  ELSE IF ls.parent = value THEN ls
  ELSE IF hostLayout[value] # "this" THEN [ls EXCEPT !.threw = TRUE]
  ELSE [ls EXCEPT !.parent = value]

\* Layout.parent setter
SetParent(ls, value) ==
  IF value = Null THEN [ls EXCEPT !.threw = TRUE]
  ELSE IF ls.parent = value THEN ls
  ELSE IF ls.parent # Null THEN [ls EXCEPT !.threw = TRUE]
  ELSE IF hostLayout[value] # "this" THEN [ls EXCEPT !.threw = TRUE]
  ELSE [ls EXCEPT !.parent = value]

\* Layout.dispose()
Dispose(ls) == [ls EXCEPT !.disposed = TRUE, !.parent = Null]

LayoutCommit(ls, op) ==
  /\ layParent' = ls.parent
  /\ layDisposed' = ls.disposed
  /\ layThrew' = ls.threw
  /\ layOp' = op
  /\ UNCHANGED otherThanLayout

LayoutInit ==
  /\ layParent = Null
  /\ layDisposed = FALSE
  /\ hostLayout = [h \in Hosts |-> "null"]
  /\ layOp = [op |-> "init", value |-> Null, pre |-> Null]
  /\ layThrew = FALSE

\* layout.parent = value
laySetParent ==
  \E value \in Hosts \cup {Null} :
    \E ls \in {SetParent(LayoutState, value)} :
      /\ LayoutCommit(ls, [op |-> "setParent", value |-> value, pre |-> layParent])
      /\ UNCHANGED hostLayout

\* layout.dispose()
layDispose ==
  \E ls \in {Dispose(LayoutState)} :
    /\ LayoutCommit(ls, [op |-> "dispose", value |-> Null, pre |-> layParent])
    /\ UNCHANGED hostLayout

\* A host widget is given this layout, another layout or none
layHostLayout ==
  \E h \in Hosts, l \in {"this", "other", "null"} :
    /\ hostLayout' = [hostLayout EXCEPT ![h] = l]
    /\ \E ls \in {LayoutState} :
         LayoutCommit(ls, [op |-> "hostLayout", value |-> h, pre |-> layParent])

LayoutNext ==
  \/ laySetParent
  \/ layDispose
  \/ layHostLayout

-----------------------------------------------------------------------------
(* PanelLayout claims *)

Range(s) == {s[p] : p \in 1..Len(s)}

IsInsertOp == lastOp.op \in {"addChild", "insertChild"}
IsRemoveOp == lastOp.op \in {"removeChild", "unparent"}
WasContained == lastOp.child \in Range(lastOp.pre)

\* The index an insertChild of a contained child moves it to
MoveTarget ==
  LET n == Len(lastOp.pre)
      j == ClampIndex(lastOp.index, n)
  IN IF j = n THEN n - 1 ELSE j

EffectiveMove == IsInsertOp /\ WasContained /\ MoveTarget # IndexOf(lastOp.pre, lastOp.child)

MessagesOf(t) == SelectSeq(t, LAMBDA e : e.kind \in {"after-attach", "before-detach"})

\* C1: on an installed layout the child nodes of the parent's node are
\* exactly the nodes of layout.children, in the same order.
C1_DomMatchesChildren == layoutParent => dom = children

C1_Witness ==
  /\ layoutParent /\ EffectiveMove /\ Len(children) = NumWidgets
  /\ IndexOf(lastOp.pre, lastOp.child) < MoveTarget

\* C2: no widget occurs twice in layout.children; inserting a contained
\* widget keeps the number of children, inserting a new one adds one,
\* removing a contained one removes one, removing another changes nothing.
C2_NoDuplicateChildren ==
  /\ NoDup(children)
  /\ IsInsertOp =>
        /\ Range(children) = Range(lastOp.pre) \cup {lastOp.child}
        /\ Len(children) = Len(lastOp.pre) + (IF WasContained THEN 0 ELSE 1)
  /\ IsRemoveOp =>
        /\ Range(children) = Range(lastOp.pre) \ {lastOp.child}
        /\ Len(children) = Len(lastOp.pre) - (IF WasContained THEN 1 ELSE 0)

C2_Witness == IsInsertOp /\ WasContained /\ children # lastOp.pre /\ Len(children) >= 2

\* C3: with an attached parent an inserted child gets 'after-attach' after
\* its node is inserted and a removed child gets 'before-detach' before
\* its node is removed; with no attached parent neither message is sent.
C3_AttachDetachOrder ==
  /\ (IsInsertOp /\ ~WasContained /\ layoutParent /\ parentAttached) =>
        trace = <<Ev("dom-insert", lastOp.child), Ev("after-attach", lastOp.child)>>
  /\ (IsRemoveOp /\ WasContained /\ layoutParent /\ parentAttached) =>
        trace = <<Ev("before-detach", lastOp.child), Ev("dom-remove", lastOp.child)>>
  /\ ((IsInsertOp \/ IsRemoveOp) /\ ~(layoutParent /\ parentAttached)) =>
        MessagesOf(trace) = <<>>

C3_Witness ==
  /\ lastOp.op = "insertChild" /\ ~WasContained /\ layoutParent /\ parentAttached
  /\ Len(lastOp.pre) >= 1 /\ wattached[lastOp.child]

\* C4: with an attached parent an effective move sends the child one
\* 'before-detach', removes and re-inserts its node, then sends one
\* 'after-attach'; an insertChild of a contained child that is no
\* effective move sends nothing and leaves the DOM alone.
C4_MoveMessages ==
  /\ (EffectiveMove /\ layoutParent /\ parentAttached) =>
        trace = <<Ev("before-detach", lastOp.child), Ev("dom-remove", lastOp.child),
                  Ev("dom-insert", lastOp.child), Ev("after-attach", lastOp.child)>>
  /\ (IsInsertOp /\ WasContained /\ ~EffectiveMove) =>
        trace = <<>> /\ dom = lastOp.predom /\ children = lastOp.pre

C4_Witness ==
  /\ EffectiveMove /\ layoutParent /\ parentAttached /\ Len(trace) = 4

C4_WitnessNoMove ==
  /\ lastOp.op = "insertChild" /\ WasContained /\ ~EffectiveMove
  /\ layoutParent /\ parentAttached

\* The 'after-attach' / 'before-detach' messages of trace t sent to widget w
MessagesTo(t, w) == SelectSeq(MessagesOf(t), LAMBDA e : e.w = w)

\* The messages m continue an alternation in which the last message
\* received so far was 'after-attach' (wasAttached) or was 'before-detach'
\* or none at all
Alternates(m, wasAttached) ==
  \A p \in 1..Len(m) :
    m[p].kind = (IF wasAttached = (p % 2 = 1) THEN "before-detach" ELSE "after-attach")

\* C18: over insert, move and remove operations interleaved with the
\* parent being attached and detached, the 'after-attach' and
\* 'before-detach' messages each child receives strictly alternate,
\* starting with 'after-attach'.
C18_MessagesAlternate ==
  [][\A w \in Widgets :
       /\ Alternates(MessagesTo(trace', w), wattached[w])
       /\ wattached'[w] = IF MessagesTo(trace', w) = <<>> THEN wattached[w]
                          ELSE MessagesTo(trace', w)[Len(MessagesTo(trace', w))].kind
                               = "after-attach"]_vars

\* an attached child was moved: 'before-detach' then 'after-attach'
C18_Witness ==
  /\ EffectiveMove /\ layoutParent /\ parentAttached
  /\ Len(MessagesTo(trace, lastOp.child)) = 2
  /\ wattached[lastOp.child]

\* a detached parent with children was attached again
C18_WitnessForward ==
  /\ lastOp.op = "attachParent" /\ layoutParent /\ Len(children) >= 2
  /\ Len(MessagesOf(trace)) = Len(children)

-----------------------------------------------------------------------------
(* Menu claims *)

\* C5: parentMenu is set only on an open submenu, childMenu only on a menu
\* with an open submenu, and the links agree: c.parentMenu = p implies
\* p.childMenu = c, and p.childMenu = c implies c.parentMenu = p and c is
\* attached.
C5_MenuLinksAgree ==
  \A c \in Menus :
    /\ parentMenu[c] # Null => childMenu[parentMenu[c]] = c
    /\ childMenu[c] # Null =>
          parentMenu[childMenu[c]] = c /\ attached[childMenu[c]]

\* C6: after a close request on menu m its timers are cancelled, its
\* active index is -1, its child link is cleared and every menu of the
\* chain below it is closed, its former parent has no pending timers and
\* no child menu or child item, and m is detached.
C6_CloseRequest ==
  menuOp.op = "close" =>
    LET m == menuOp.menu
    IN /\ openTimer[m] = Null /\ ~closeTimer[m]
       /\ activeIndex[m] = -1
       /\ childMenu[m] = Null /\ childItem[m] = Null
       /\ \A c \in menuOp.preChain :
            /\ ~attached[c] /\ parentMenu[c] = Null
            /\ childMenu[c] = Null /\ childItem[c] = Null
            /\ activeIndex[c] = -1 /\ ~closeTimer[c] /\ openTimer[c] = Null
       /\ parentMenu[m] = Null
       /\ menuOp.preParent # Null =>
            /\ openTimer[menuOp.preParent] = Null /\ ~closeTimer[menuOp.preParent]
            /\ childMenu[menuOp.preParent] = Null
            /\ childItem[menuOp.preParent] = Null
       /\ ~attached[m]

C6_Witness ==
  /\ menuOp.op = "close" /\ menuOp.preParent # Null
  /\ Cardinality(menuOp.preChain) >= 1

C6_WitnessChain ==
  /\ menuOp.op = "close" /\ Cardinality(menuOp.preChain) >= 2

\* The items the activeIndex setter must refuse, in the words of the claim
C7_Refused(id) ==
  \/ ItemOf(id).type = "separator"
  \/ ItemOf(id).disabled
  \/ ItemOf(id).type = "submenu" /\ ItemOf(id).submenu = Null
  \/ ItemOf(id).type # "submenu" /\ ~ItemOf(id).handler

C7_WitnessRefused ==
  /\ menuOp.op = "setActiveIndex" /\ Floor(menuOp.arg) = 0
  /\ Len(items[menuOp.menu]) >= 1 /\ ItemOf(items[menuOp.menu][1]).disabled
  /\ activeIndex[menuOp.menu] = -1

\* C16: when the delayed close of menu m fires, what it closes is the
\* child that was open when the close was scheduled (with the chain below
\* it): that child does not stay attached, and no other menu, such as a
\* submenu opened after the close was scheduled, is closed by the timer.
C16_CloseTimerTarget ==
  [][menuOp'.op = "closeTimer" =>
       /\ closeTarget[menuOp'.menu] # Null => ~attached'[closeTarget[menuOp'.menu]]
       /\ \A c \in Menus :
            (attached[c] /\ ~attached'[c]) =>
               c \in ChainFrom(closeTarget[menuOp'.menu], NumMenus)]_vars

-----------------------------------------------------------------------------
(* MenuBar claims *)

\* C8: insertMenu clamps the index and moves a menu that is in the bar: a
\* new menu lands at max(0, min(floor(index), n)), an existing one there
\* (at n-1 when that is n); the menus hold no duplicates, menus and item
\* nodes have equal length, and the item nodes in the content node are in
\* the order of the menus.
C8_InsertMenu ==
  /\ NoDup(barMenus)
  /\ Len(barMenus) = Len(barNodes)
  /\ barDom = barNodes
  /\ barNodes = barMenus
  /\ barOp.op = "insertMenu" =>
        LET n == Len(barOp.pre)
            t == Max(0, Min(Floor(barOp.arg), n))
        IN IF barOp.menu \in Range(barOp.pre)
           THEN /\ IndexOf(barMenus, barOp.menu) = (IF t = n THEN n - 1 ELSE t)
                /\ Len(barMenus) = n
                /\ Range(barMenus) = Range(barOp.pre)
           ELSE barMenus = InsertAt(barOp.pre, t, barOp.menu)

C8_Witness ==
  /\ barOp.op = "insertMenu" /\ barOp.menu \in Range(barOp.pre)
  /\ Len(barMenus) = 3 /\ barMenus # barOp.pre
  /\ IndexOf(barOp.pre, barOp.menu) < IndexOf(barMenus, barOp.menu)

\* C9: openActiveMenu is a no-op when there is no active menu; otherwise
\* afterwards childMenu is the active menu and childMenu.activeIndex is 0.
C9_OpenActiveMenu ==
  barOp.op = "openActiveMenu" =>
    IF barOp.preActive = Null
    THEN barOp.arg = 0 /\ ~barThrew
    ELSE /\ barChildMenu = barOp.preActive
         /\ activeIndex[barOp.preActive] = 0

C17_WitnessSame ==
  /\ barOp.op = "openActiveMenu" /\ barOp.preActive # Null /\ barOp.arg = 0
  /\ barChildMenu = barOp.preActive

-----------------------------------------------------------------------------
(* TabBar claims *)

\* C10: after assigning an in-range index i to currentIndex, currentIndex
\* is i and currentTab and currentTitle are the tab and title at i; after
\* assigning an out-of-range value, currentIndex is -1 and both are null.
C10_CurrentIndexSetter ==
  tabOp.op = "setCurrentIndex" =>
    LET i == Floor(tabOp.arg)
    IN IF i >= 0 /\ i < Len(titles)
       THEN (tabOp.arg = 2 * i) =>
              /\ currentIndex = i
              /\ CurrentTab(TabState) = tabs[i + 1]
              /\ CurrentTitle(TabState) = titles[i + 1]
       ELSE /\ currentIndex = -1
            /\ CurrentTab(TabState) = Null
            /\ CurrentTitle(TabState) = Null

\* C11: insertTab clamps the index and moves a title that is in the tab
\* bar: a new title lands at max(0, min(floor(index), n)), an existing one
\* there (at n-1 when that is n); the titles hold no duplicates, tabs and
\* titles have equal length, and the tab nodes in the content node are in
\* the order of the titles.
C11_InsertTab ==
  /\ NoDup(titles)
  /\ Len(tabs) = Len(titles)
  /\ tabDom = tabs
  /\ tabs = titles
  /\ tabOp.op = "insertTab" =>
        LET n == Len(tabOp.pre)
            t == Max(0, Min(Floor(tabOp.arg), n))
        IN IF tabOp.title \in Range(tabOp.pre)
           THEN /\ IndexOf(titles, tabOp.title) = (IF t = n THEN n - 1 ELSE t)
                /\ Len(titles) = n
                /\ Range(titles) = Range(tabOp.pre)
           ELSE titles = InsertAt(tabOp.pre, t, tabOp.title)
  /\ tabOp.op = "removeTab" =>
        /\ Range(titles) = Range(tabOp.pre) \ {tabOp.title}
        /\ Len(titles) = Len(tabOp.pre) - (IF tabOp.title \in Range(tabOp.pre) THEN 1 ELSE 0)

C11_Witness ==
  /\ tabOp.op = "insertTab" /\ tabOp.title \in Range(tabOp.pre)
  /\ Len(titles) = 3 /\ titles # tabOp.pre
  /\ IndexOf(tabOp.pre, tabOp.title) < IndexOf(titles, tabOp.title)

C11_WitnessClamped ==
  /\ tabOp.op = "insertTab" /\ tabOp.title \notin Range(tabOp.pre)
  /\ Floor(tabOp.arg) > Len(tabOp.pre) /\ Len(tabOp.pre) >= 1

\* The steps that release the mouse: releaseMouse, insertTab, removeTab of
\* a contained title, 'before-detach' and an Escape keydown
C12_IsRelease ==
  \/ tabOp'.op \in {"releaseMouse", "insertTab", "detach"}
  \/ tabOp'.op = "removeTab" /\ tabOp'.title \in Range(titles)
  \/ tabOp'.op = "keydown" /\ tabOp'.arg = 27

\* C12: each releasing step ends a drag in progress: afterwards no drag
\* data is held and the document listeners for mousemove, mouseup, keydown
\* and contextmenu are removed; with no drag in progress the release
\* changes nothing.
C12_ReleaseEndsDrag ==
  [][C12_IsRelease =>
       /\ ~dragData'
       /\ docListeners' \cap DragListeners = {}
       /\ ~dragData => /\ docListeners' = docListeners
                       /\ tabOp'.op \in {"releaseMouse", "detach", "keydown"} =>
                            UNCHANGED <<titles, tabs, tabDom, currentIndex, tabsMovable>>]_vars

C12_Witness ==
  /\ tabOp.op = "releaseMouse" /\ tabOp.arg = 1
  /\ ~dragData /\ docListeners = {} /\ Len(titles) >= 1

C12_WitnessEscape ==
  /\ tabOp.op = "keydown" /\ tabOp.arg = 27 /\ ~dragData /\ docListeners = {}

C12_WitnessDetach ==
  /\ tabOp.op = "detach" /\ tabOp.arg = 1 /\ ~dragData /\ docListeners = {}

\* C19: a drag starts only on a left mouse press on a tab, outside its
\* close icon, with tabsMovable true and no drag in progress, and a left
\* mouseup during a drag ends it: afterwards no drag data is held and the
\* document listeners for mousemove, mouseup, keydown and contextmenu are
\* removed.
C19_DragStartsAndEnds ==
  [][/\ (~dragData /\ dragData') =>
          /\ tabOp'.op = "mousedown"
          /\ tabOp'.button = 0 /\ tabOp'.index >= 0 /\ ~tabOp'.onIcon
          /\ tabsMovable
     /\ (tabOp'.op = "mouseup" /\ tabOp'.arg = 0 /\ dragData) =>
          /\ ~dragData'
          /\ docListeners' \cap DragListeners = {}]_vars

-----------------------------------------------------------------------------
(* overrideCursor claims *)

\* C13: the most recent overrideCursor call takes precedence: disposing
\* the disposable of an older override leaves the body's cursor style and
\* override class unchanged, disposing the most recent override clears
\* both, and an overrideCursor call sets both.
C13_LatestOverrideWins ==
  [][/\ cursorOp'.op = "dispose" =>
          IF cursorOp'.id # overrideID
          THEN bodyCursor' = bodyCursor /\ bodyClass' = bodyClass
          ELSE bodyCursor' = "" /\ ~bodyClass'
     /\ cursorOp'.op = "override" => bodyCursor' \in Cursors /\ bodyClass']_vars

\* an older override is disposed for the first time while a newer one is active
C13_Witness ==
  /\ cursorOp.op = "dispose" /\ ~cursorOp.latest /\ cursorOp.first
  /\ bodyClass /\ bodyCursor # "" /\ overrideID \notin disposed

C13_WitnessLatest ==
  /\ cursorOp.op = "dispose" /\ cursorOp.latest /\ cursorOp.first
  /\ overrideID >= 2 /\ ~bodyClass /\ bodyCursor = ""
  /\ \E id \in 1..(overrideID - 1) : id \notin disposed

-----------------------------------------------------------------------------
(* setGeometry claims *)

\* What the claim expects setGeometry to send: a ResizeMessage(width,
\* height) exactly on the first call, the first call after a reset, or
\* when the width or the height is not the one set before
C14_Expected ==
  IF \/ ~geomOp.preSet
     \/ geomOp.args.width # geomOp.pre.width
     \/ geomOp.args.height # geomOp.pre.height
  THEN <<[type |-> "resize", width |-> geomOp.args.width, height |-> geomOp.args.height]>>
  ELSE <<>>

\* C14 as stated: for any numbers, setGeometry sends ResizeMessage(width,
\* height) exactly when the width or the height differs from the geometry
\* set before; a repeated call with identical arguments sends nothing.
C14_ResizeMessage_AnyNumber ==
  geomOp.op = "setGeometry" => geomOp.sent = C14_Expected

\* C14 for a width and a height other than NaN: setGeometry sends
\* ResizeMessage(width, height) exactly when the width or the height
\* differs from the geometry set before, so a repeated call or a change of
\* left/top alone sends nothing, and the first call and the first call
\* after resetGeometry always send one.
C14_ResizeMessage ==
  (geomOp.op = "setGeometry" /\ geomOp.args.width # NaN /\ geomOp.args.height # NaN)
    => geomOp.sent = C14_Expected

\* only left/top change on a widget with a geometry: nothing is sent
C14_Witness ==
  /\ geomOp.op = "setGeometry" /\ geomOp.preSet
  /\ geomOp.args.width # NaN /\ geomOp.args.height # NaN
  /\ geomOp.args.width = geomOp.pre.width /\ geomOp.args.height = geomOp.pre.height
  /\ geomOp.args.left # geomOp.pre.left /\ geomOp.args.top # geomOp.pre.top
  /\ geomOp.sent = <<>>

\* only the height changes: a message is sent
C14_WitnessResized ==
  /\ geomOp.op = "setGeometry" /\ geomOp.preSet
  /\ geomOp.args.width # NaN /\ geomOp.args.height # NaN /\ geomOp.pre.height # NaN
  /\ geomOp.args.width = geomOp.pre.width /\ geomOp.args.height # geomOp.pre.height
  /\ Len(geomOp.sent) = 1

-----------------------------------------------------------------------------
(* Layout claims *)

\* C15: assigning layout.parent throws for null, is a no-op for the
\* current parent, throws for any other widget once a parent is set and
\* throws for a widget whose layout is not this layout; when it throws the
\* stored parent is unchanged; a parent once set changes only to null, and
\* only on dispose.
C15_ParentSetter ==
  [][/\ layOp'.op = "setParent" =>
          /\ layOp'.value = Null => layThrew'
          /\ (layOp'.value # Null /\ layOp'.value = layParent) =>
                ~layThrew' /\ layParent' = layParent
          /\ (layOp'.value # Null /\ layParent # Null /\ layOp'.value # layParent) =>
                layThrew'
          /\ (layOp'.value # Null /\ layOp'.value # layParent
                /\ hostLayout[layOp'.value] # "this") => layThrew'
          /\ layThrew' => layParent' = layParent
     /\ layParent # Null => layParent' \in {layParent, Null}
     /\ (layParent # Null /\ layParent' = Null) => layOp'.op = "dispose"]_vars

\* another widget whose layout is this layout is refused once a parent is set
C15_Witness ==
  /\ layOp.op = "setParent" /\ layThrew
  /\ layOp.pre # Null /\ layOp.value \notin {Null, layOp.pre}
  /\ hostLayout[layOp.value] = "this" /\ layParent = layOp.pre

\* a widget with another layout is refused while no parent is set
C15_WitnessInvalid ==
  /\ layOp.op = "setParent" /\ layThrew /\ layOp.pre = Null /\ layParent = Null
  /\ layOp.value # Null /\ hostLayout[layOp.value] = "other"

-----------------------------------------------------------------------------

Init == PanelInit /\ MenuInit /\ BarInit /\ TabInit /\ CursorInit /\ GeomInit
        /\ LayoutInit

SpecPanel == Init /\ [][PanelNext]_vars

\* Menus, menu bars and tab bars are exercised with the panel left idle.
IdleInit == Init /\ ~parentAttached

SpecMenuItems == IdleInit /\ [][ItemsNext]_vars

SpecMenuBar == IdleInit /\ [][BarNext]_vars

SpecTabBar == IdleInit /\ [][TabNext]_vars

SpecMenu == IdleInit /\ [][MenuNext]_vars

SpecCursor == IdleInit /\ [][CursorNext]_vars

SpecGeometry == IdleInit /\ [][GeomNext]_vars

SpecLayout == IdleInit /\ [][LayoutNext]_vars

====
